---- MODULE Spec2Model ----
(***************************************************************************)
(* Model of scripts/build_words.py (kotoba-search): the kana normalizer,   *)
(* the reading extractor with its dedup/sort, the record source with its   *)
(* file handles, and the gzip serializer.                                  *)
(*                                                                         *)
(* A character is its Unicode codepoint; a string is a sequence of         *)
(* codepoints; a row is a sequence of strings (csv fields).                *)
(***************************************************************************)
EXTENDS Integers, Sequences, FiniteSets, TLC

VARIABLES
    \* --- normalizer harness
    input,       \* the string first handed to normalize_hiragana
    text,        \* argument of normalize_hiragana
    converted,   \* local `converted` of normalize_hiragana
    hira,        \* value returned by normalize_hiragana
    prev,        \* value returned by the previous application
    round,       \* how many times normalize_hiragana has been applied
    npc,         \* position inside normalize_hiragana
    \* --- pipeline (main)
    pc,          \* position inside main()
    nFiles,      \* number of files rglob("*.csv") discovers
    fi,          \* files the generator has finished with
    cur,         \* file the generator is reading (0: none)
    openHandles, \* input file handles currently open
    opens,       \* per file: how many times it was opened
    closes,      \* per file: how many times its handle was closed
    failedAt,    \* file whose open/read/decode raised (0: none)
    seen,        \* local `seen` of extract_words
    row,         \* last row yielded by iter_word_rows
    reading,     \* local `reading` of extract_words for that row
    consumed,    \* all rows yielded so far, in order
    words,       \* value returned by extract_words / argument of write_wordlist
    \* --- serializer
    clock,       \* int(time.time())
    artifact,    \* public/words.txt.gz (NoFile: absent)
    prevArtifact,\* its content before the latest write_wordlist
    writes       \* executions of write_wordlist so far

normVars == <<input, text, converted, hira, prev, round, npc>>
pipeVars == <<pc, nFiles, fi, cur, openHandles, opens, closes, failedAt,
              seen, row, reading, consumed>>
serVars  == <<words, clock, artifact, prevArtifact, writes>>
vars     == <<normVars, pipeVars, serVars>>

----------------------------------------------------------------------------
(* Bounds of the model *)

MaxLen    == 2   \* longest enumerated input of normalize_hiragana
MaxFiles  == 2   \* most files discovered
MaxRows   == 3   \* most rows yielded over the whole run
MaxClock  == 2   \* the clock runs 0..MaxClock
MaxWrites == 2   \* most executions of write_wordlist in the serializer harness

----------------------------------------------------------------------------
(* Codepoints named by the source *)

KATA_SMALL_A  == 12449   \* ord("ァ") U+30A1
KATA_SMALL_KE == 12534   \* ord("ヶ") U+30F6
KANA_OFFSET   == 96      \* 0x60
HIRA_SMALL_A  == 12353   \* ord("ぁ") U+3041
HIRA_YORI     == 12447   \* ord("ゟ") U+309F, exclusive end of range()
PROLONGED     == 12540   \* "ー" U+30FC
LF            == 10      \* "\n"

Range(lo, hi) == lo .. (hi - 1)          \* Python range(lo, hi)

----------------------------------------------------------------------------
(* Kana normalizer *)

KATAKANA_TO_HIRAGANA ==
    [ordinal \in Range(KATA_SMALL_A, KATA_SMALL_KE + 1) |-> ordinal - KANA_OFFSET]

\* variant: the allowed range stops after ん (U+3093), leaving out ゔ..ゞ
ALLOWED_UpToN == Range(HIRA_SMALL_A, 12436) \cup {PROLONGED}

ALLOWED_HIRAGANA == Range(HIRA_SMALL_A, HIRA_YORI) \cup {PROLONGED}

\* variant: the table without the small-KA / small-KE entries
special_NoSmallKaKe ==
    (12535 :> 12431) @@ (12536 :> 12432) @@ (12537 :> 12433) @@
    (12538 :> 12434) @@ (12532 :> 12436)

\* the dict `special`: ヵ->か ヶ->け ヷ->わ ヸ->ゐ ヹ->ゑ ヺ->を ヴ->ゔ
special ==
    (12533 :> 12363) @@ (12534 :> 12369) @@ (12535 :> 12431) @@
    (12536 :> 12432) @@ (12537 :> 12433) @@ (12538 :> 12434) @@
    (12532 :> 12436)

\* the test `ord("ァ") <= ordinal <= ord("ヶ")`
InKatakanaRange(ordinal) == KATA_SMALL_A <= ordinal /\ ordinal <= KATA_SMALL_KE

\* variant: the range test starts at ぁ instead of ァ, so hiragana is shifted too
ConvertChar_ShiftsHiragana(ch) ==
    IF ch \in DOMAIN special THEN special[ch]
    ELSE IF HIRA_SMALL_A <= ch /\ ch <= KATA_SMALL_KE THEN ch - KANA_OFFSET
    ELSE ch

\* one iteration of the loop `for ch in text`: the character appended
ConvertChar(ch) ==
    IF ch \in DOMAIN special THEN special[ch]
    ELSE IF InKatakanaRange(ch) THEN KATAKANA_TO_HIRAGANA[ch]
    ELSE ch

katakana_to_hiragana(t) == [i \in 1 .. Len(t) |-> ConvertChar(t[i])]

IsAllowed(ch) == ch \in ALLOWED_HIRAGANA

FilterAllowed(c) == SelectSeq(c, IsAllowed)

normalize_hiragana(t) == FilterAllowed(katakana_to_hiragana(t))

----------------------------------------------------------------------------
(* Reading extractor, dedup and sort (extract_words) *)

\* characters str.strip() removes (str.isspace)
WHITESPACE ==
    (9 .. 13) \cup (28 .. 32) \cup {133, 160, 5760} \cup (8192 .. 8202)
    \cup {8232, 8233, 8239, 8287, 12288}

RECURSIVE lstrip(_)
lstrip(s) ==
    IF s = <<>> THEN s
    ELSE IF Head(s) \in WHITESPACE THEN lstrip(Tail(s)) ELSE s

RECURSIVE rstrip(_)
rstrip(s) ==
    IF s = <<>> THEN s
    ELSE IF s[Len(s)] \in WHITESPACE THEN rstrip(SubSeq(s, 1, Len(s) - 1)) ELSE s

strip(s) == rstrip(lstrip(s))

\* Python truthiness of a str or a list
Truthy(s) == Len(s) > 0

\* row[i], fields counted from 0
Field(r, i) == r[i + 1]

\* lines 80-84: the value of `reading` for a non-empty row
ReadingOf(r) ==
    IF Len(r) > 11 /\ Truthy(Field(r, 11)) THEN strip(Field(r, 11))
    ELSE IF Truthy(Field(r, 0)) THEN strip(Field(r, 0))
    ELSE <<>>

\* variant: every normalized reading is added, the empty one too
SeenAfter_NoEmptyCheck(s, r) ==
    IF ~Truthy(r) THEN s ELSE s \cup {normalize_hiragana(ReadingOf(r))}

\* variant: the set is rebound to the new reading instead of growing
SeenAfter_Rebinds(s, r) ==
    IF ~Truthy(r) THEN s
    ELSE LET h == normalize_hiragana(ReadingOf(r))
         IN  IF Truthy(h) THEN {h} ELSE s

\* lines 78-87: `seen` after one iteration of the loop over rows
SeenAfter(s, r) ==
    IF ~Truthy(r) THEN s
    ELSE LET h == normalize_hiragana(ReadingOf(r))
         IN  IF Truthy(h) THEN s \cup {h} ELSE s

\* Python's str `<`: lexicographic on codepoints, a proper prefix is smaller
StrLess(a, b) ==
    \E k \in 1 .. (Len(a) + 1) :
        /\ \A j \in 1 .. (k - 1) : j <= Len(b) /\ a[j] = b[j]
        /\ k <= Len(b)
        /\ (k = Len(a) + 1 \/ a[k] < b[k])

\* line 88: sorted(seen)
RECURSIVE sorted(_)
sorted(S) ==
    IF S = {} THEN <<>>
    ELSE LET least == CHOOSE x \in S : \A y \in S \ {x} : StrLess(x, y)
         IN  <<least>> \o sorted(S \ {least})

\* lines 76-87 over a whole row stream
RECURSIVE SeenOf(_, _)
SeenOf(s, rows) ==
    IF rows = <<>> THEN s ELSE SeenOf(SeenAfter(s, Head(rows)), Tail(rows))

\* lines 75-88 as a function of the rows iter_word_rows yields
extract_words(rows) == sorted(SeenOf({}, rows))

----------------------------------------------------------------------------
(* Serializer (write_wordlist) *)

\* UTF-8 encoding of one codepoint (TextIOWrapper, encoding="utf-8")
Utf8Char(c) ==
    IF c < 128 THEN <<c>>
    ELSE IF c < 2048 THEN <<192 + (c \div 64), 128 + (c % 64)>>
    ELSE IF c < 65536
         THEN <<224 + (c \div 4096), 128 + ((c \div 64) % 64), 128 + (c % 64)>>
    ELSE <<240 + (c \div 262144), 128 + ((c \div 4096) % 64),
           128 + ((c \div 64) % 64), 128 + (c % 64)>>

RECURSIVE Utf8Encode(_)
Utf8Encode(t) ==
    IF t = <<>> THEN <<>> ELSE Utf8Char(Head(t)) \o Utf8Encode(Tail(t))

\* variant: the words are written back to back, without the line feed
WrittenLine_NoNewline(word) == word

\* line 95: what one gz.write receives (newline="\n": no translation)
WrittenLine(word) == word \o <<LF>>

\* lines 94-95: the text written by the loop
RECURSIVE WrittenText(_)
WrittenText(ws) ==
    IF ws = <<>> THEN <<>> ELSE WrittenLine(Head(ws)) \o WrittenText(Tail(ws))

\* gzip.write32u: an unsigned 32-bit field, four bytes, least significant first
U32(n) ==
    <<n % 256, (n \div 256) % 256, (n \div 65536) % 256, (n \div 16777216) % 256>>

\* lines 93-95: the gzip member gzip.open(WORDS_GZ, "wt") leaves on disk when
\* it is written at time `now` (RFC 1952 fields; `data` is the byte string
\* the DEFLATE stream encodes, of which the stream and CRC32 are functions).
write_wordlist(ws, now) ==
    LET data == Utf8Encode(WrittenText(ws))
    IN  [id    |-> <<31, 139>>,
         cm    |-> 8,
         flg   |-> 8,
         mtime |-> U32(now),
         xfl   |-> 2,
         os    |-> 255,
         fname |-> "words.txt",
         data  |-> data,
         isize |-> U32(Len(data))]

----------------------------------------------------------------------------
(* Normalizer harness: apply normalize_hiragana to an input, then to its   *)
(* own result.                                                             *)

\* ァ ア イ ヴ ヵ ヶ ヷ ヸ ヹ ヺ ・ ー ぁ あ ゕ ゖ ゞ ゟ U+3040 U+30A0 T 東 space
CharPool ==
    {12449, 12450, 12452, 12532, 12533, 12534, 12535, 12536, 12537, 12538,
     12539, 12540, 12353, 12354, 12437, 12438, 12446, 12447, 12352, 12448,
     84, 26481, 32}

Violin     == <<12532, 12449, 12452, 12458, 12522, 12531>>  \* "ヴァイオリン"
ViolinSmallA == <<12436, 12353, 12356, 12362, 12426, 12435>>  \* "ゔぁいおりん"
ViolinLargeA == <<12436, 12354, 12356, 12362, 12426, 12435>>  \* "ゔあいおりん"
TokyoMixed == <<84, 111, 107, 121, 111, 26481, 20140>>      \* "Tokyo東京"
KataAI     == <<12450, 12452>>                              \* "アイ"
HiraAI     == <<12354, 12356>>                              \* "あい"

Strings(S, n) == UNION {[1 .. k -> S] : k \in 0 .. n}

NormInputs == Strings(CharPool, MaxLen) \cup {Violin, TokyoMixed, KataAI}

NoFile == [fname |-> ""]   \* public/words.txt.gz does not exist

NoValue == <<0>>     \* placeholder: not a result of normalize_hiragana

PipeIdle ==
    /\ pc = "idle" /\ nFiles = 0 /\ fi = 0 /\ cur = 0 /\ openHandles = {}
    /\ opens = <<>> /\ closes = <<>> /\ failedAt = 0 /\ seen = {}
    /\ row = <<>> /\ reading = <<>> /\ consumed = <<>>

SerIdle ==
    /\ words = <<>> /\ clock = 0 /\ artifact = NoFile
    /\ prevArtifact = NoFile /\ writes = 0

NormIdle ==
    /\ input = <<>> /\ text = <<>> /\ converted = NoValue /\ hira = NoValue /\ prev = NoValue
    /\ round = 0 /\ npc = "idle"

InitNorm ==
    /\ input \in NormInputs
    /\ text = input
    /\ converted = NoValue /\ hira = NoValue /\ prev = NoValue
    /\ round = 1 /\ npc = "call"
    /\ PipeIdle /\ SerIdle

\* line 62
Convert ==
    /\ npc = "call"
    /\ converted' = katakana_to_hiragana(text)
    /\ npc' = "converted"
    /\ UNCHANGED <<input, text, hira, prev, round, pipeVars, serVars>>

\* line 63
Filter ==
    /\ npc = "converted"
    /\ hira' = FilterAllowed(converted)
    /\ npc' = "returned"
    /\ UNCHANGED <<input, text, converted, prev, round, pipeVars, serVars>>

\* the result is passed to normalize_hiragana again
Reapply ==
    /\ npc = "returned" /\ round = 1
    /\ prev' = hira
    /\ text' = hira
    /\ round' = 2
    /\ npc' = "call"
    /\ UNCHANGED <<input, converted, hira, pipeVars, serVars>>

NextNorm == Convert \/ Filter \/ Reapply

SpecNorm == InitNorm /\ [][NextNorm]_vars

----------------------------------------------------------------------------
(* The pipeline: main() -> extract_words(iter_word_rows()) -> write_wordlist *)

\* fields of the rows a csv.reader can yield
Empty    == <<>>                                  \* ""
Blank    == <<32>>                                \* " "
PaddedA  == <<32, 12450>>                         \* " ア"
Latin    == <<84>>                                \* "T"
PaddedAI == <<32, 12354, 12356, 12288>>           \* " あい　"
Vu       == <<12532>>                             \* "ヴ"
Filler   == <<21517, 35422>>                      \* "名詞"

\* a row of n fields: field 0, field 11 (when n > 11), the rest filled
MkRow(f0, f11, n) ==
    [i \in 1 .. n |-> IF i = 1 THEN f0 ELSE IF i = 12 THEN f11 ELSE Filler]

\* rows of no field, 1 field, 11 fields and 12 fields
RowPool ==
    {<<>>,
     MkRow(Latin, Empty, 1),
     MkRow(PaddedA, Empty, 11),
     MkRow(Latin, PaddedAI, 12), MkRow(PaddedA, Blank, 12),
     MkRow(PaddedA, Empty, 12), MkRow(Empty, Vu, 12)}

\* words.txt.gz left by an earlier run
StaleArtifact == write_wordlist(<<HiraAI>>, 0)

Files == 1 .. nFiles

InitMain ==
    /\ NormIdle
    /\ pc = "clone"
    /\ nFiles \in 0 .. MaxFiles
    /\ fi = 0 /\ cur = 0 /\ openHandles = {}
    /\ opens = [f \in Files |-> 0]
    /\ closes = [f \in Files |-> 0]
    /\ failedAt = 0
    /\ seen = {} /\ row = <<>> /\ reading = <<>> /\ consumed = <<>>
    /\ words = <<>>
    /\ clock = 0
    /\ artifact \in {NoFile, StaleArtifact}
    /\ prevArtifact = artifact
    /\ writes = 0

\* variant: the failing file is skipped and the generator goes on
OnSourceReadError_Skips == "iter"

\* an exception raised inside iter_word_rows meets no except clause in
\* iter_word_rows, extract_words or main: main() is left at line 122
OnSourceReadError == "failed"

\* variant: the handle is opened without a with-block and never closed
WithExit_Leaks(handles, f) == handles

\* line 70: leaving the with-block closes the handle, on return and on raise
WithExit(handles, f) == handles \ {f}

ClosesAfter(handles, f) ==
    IF f \in handles /\ f \notin WithExit(handles, f)
    THEN [closes EXCEPT ![f] = @ + 1] ELSE closes

\* lines 115-121: clone_repo, then the existence test of ipadic_dir
CloneRepo ==
    /\ pc = "clone"
    /\ \E outcome \in {"cloned", "git_failed", "dir_missing"} :
           pc' = IF outcome = "cloned" THEN "iter" ELSE "exit"
    /\ UNCHANGED <<nFiles, fi, cur, openHandles, opens, closes, failedAt,
                   seen, row, reading, consumed, normVars, serVars>>

\* lines 67-70: the generator takes the next path and opens it
OpenNext ==
    /\ pc = "iter" /\ cur = 0 /\ fi < nFiles
    /\ \E opened \in BOOLEAN :
         IF opened
         THEN /\ cur' = fi + 1
              /\ openHandles' = openHandles \cup {fi + 1}
              /\ opens' = [opens EXCEPT ![fi + 1] = @ + 1]
              /\ UNCHANGED <<pc, fi, failedAt>>
         ELSE /\ failedAt' = fi + 1
              /\ fi' = fi + 1
              /\ pc' = OnSourceReadError
              /\ UNCHANGED <<cur, openHandles, opens>>
    /\ UNCHANGED <<nFiles, closes, seen, row, reading, consumed,
                   normVars, serVars>>

\* line 72 and lines 77-87: the reader yields a row, the loop body runs on it
YieldRow ==
    /\ pc = "iter" /\ cur # 0 /\ Len(consumed) < MaxRows
    /\ \E r \in RowPool :
         /\ row' = r
         /\ consumed' = Append(consumed, r)
         /\ reading' = IF Truthy(r) THEN ReadingOf(r) ELSE reading
         /\ seen' = SeenAfter(seen, r)
    /\ UNCHANGED <<pc, nFiles, fi, cur, openHandles, opens, closes, failedAt,
                   normVars, serVars>>

\* lines 70-72: reading or decoding raises inside the with-block
ReadError ==
    /\ pc = "iter" /\ cur # 0
    /\ openHandles' = WithExit(openHandles, cur)
    /\ closes' = ClosesAfter(openHandles, cur)
    /\ failedAt' = cur
    /\ fi' = fi + 1
    /\ cur' = 0
    /\ pc' = OnSourceReadError
    /\ UNCHANGED <<nFiles, opens, seen, row, reading, consumed,
                   normVars, serVars>>

\* lines 70-72: the reader is exhausted, the with-block is left
EndOfFile ==
    /\ pc = "iter" /\ cur # 0
    /\ openHandles' = WithExit(openHandles, cur)
    /\ closes' = ClosesAfter(openHandles, cur)
    /\ fi' = fi + 1
    /\ cur' = 0
    /\ UNCHANGED <<pc, nFiles, opens, failedAt, seen, row, reading, consumed,
                   normVars, serVars>>

\* line 88 and line 122: the generator is exhausted, extract_words returns
ExtractReturn ==
    /\ pc = "iter" /\ cur = 0 /\ fi = nFiles
    /\ words' = sorted(seen)
    /\ pc' = "write"
    /\ UNCHANGED <<nFiles, fi, cur, openHandles, opens, closes, failedAt,
                   seen, row, reading, consumed, normVars,
                   clock, artifact, prevArtifact, writes>>

\* line 123
WriteWordlist ==
    /\ pc = "write"
    /\ prevArtifact' = artifact
    /\ artifact' = write_wordlist(words, clock)
    /\ writes' = writes + 1
    /\ pc' = "notice"
    /\ UNCHANGED <<nFiles, fi, cur, openHandles, opens, closes, failedAt,
                   seen, row, reading, consumed, normVars, words, clock>>

\* lines 124-125
WriteNotice ==
    /\ pc = "notice"
    /\ pc' = "done"
    /\ UNCHANGED <<nFiles, fi, cur, openHandles, opens, closes, failedAt,
                   seen, row, reading, consumed, normVars, serVars>>

\* time.time() advances; only write_wordlist reads it
Tick ==
    /\ pc \in {"idle", "write"}
    /\ clock < MaxClock
    /\ clock' = clock + 1
    /\ UNCHANGED <<normVars, pipeVars, words, artifact, prevArtifact, writes>>

Next ==
    \/ CloneRepo \/ OpenNext \/ YieldRow \/ ReadError \/ EndOfFile
    \/ ExtractReturn \/ WriteWordlist \/ WriteNotice \/ Tick

Spec == InitMain /\ [][Next]_vars

----------------------------------------------------------------------------
(* Serializer harness: write_wordlist executed repeatedly on one sequence *)

WordPool == {<<12354>>, HiraAI, <<12436>>, <<12540>>}     \* あ あい ゔ ー

OutputSequences == {sorted(S) : S \in SUBSET WordPool}

InitWrite ==
    /\ NormIdle /\ PipeIdle
    /\ words \in OutputSequences
    /\ clock = 0
    /\ artifact = NoFile /\ prevArtifact = NoFile
    /\ writes = 0

\* lines 91-95, executed once more on the same `words`
RunWriteWordlist ==
    /\ pc = "idle" /\ writes < MaxWrites
    /\ prevArtifact' = artifact
    /\ artifact' = write_wordlist(words, clock)
    /\ writes' = writes + 1
    /\ UNCHANGED <<normVars, pipeVars, words, clock>>

NextWrite == RunWriteWordlist \/ Tick

SpecWrite == InitWrite /\ [][NextWrite]_vars

----------------------------------------------------------------------------
(* Properties of the normalizer (checked under SpecNorm) *)

Returned1 == npc = "returned" /\ round = 1

\* C3 as stated: normalize_hiragana("ヴァイオリン") returns "ゔあいおりん",
\* the six characters ゔ あ い お り ん (second character U+3042).
C3_AsStated == (Returned1 /\ input = Violin) => hira = ViolinLargeA

\* C3 amended: normalize_hiragana("ヴァイオリン") returns "ゔぁいおりん": ヴ maps
\* to ゔ and every other character to the one 0x60 below it, so the small ァ
\* (U+30A1) becomes the small ぁ (U+3041).
C3_ViolinScenario == (Returned1 /\ input = Violin) => hira = ViolinSmallA

C3_Witness ==
    Returned1 /\ input = Violin /\ Len(hira) = 6 /\ hira[1] = 12436 /\ hira[2] = 12353

\* C4: normalize_hiragana is idempotent: applying it to its own result
\* returns that result unchanged, for every input string.
C4_Idempotent == (npc = "returned" /\ round = 2) => hira = prev

\* ヷ followed by ー, normalized twice
C4_Witness ==
    /\ npc = "returned" /\ round = 2
    /\ input = <<12535, 12540>> /\ prev = <<12431, 12540>> /\ hira = prev

\* The allowed alphabet as the claims state it: U+3041..U+309E plus U+30FC.
InAlphabet(ch) == (12353 <= ch /\ ch <= 12446) \/ ch = 12540

\* The per-character rule as C10 states it: ヵ -> か, ヶ -> け, any other
\* character of ァ..ヶ -> the character 0x60 below, anything else unchanged.
StatedChar(ch) ==
    IF ch = 12533 THEN 12363
    ELSE IF ch = 12534 THEN 12369
    ELSE IF 12449 <= ch /\ ch <= 12534 THEN ch - 96
    ELSE ch

\* The same rule with the four historical katakana ヷ ヸ ヹ ヺ -> わ ゐ ゑ を.
AmendedChar(ch) ==
    IF ch = 12535 THEN 12431
    ELSE IF ch = 12536 THEN 12432
    ELSE IF ch = 12537 THEN 12433
    ELSE IF ch = 12538 THEN 12434
    ELSE StatedChar(ch)

StatedNormalize(t) ==
    SelectSeq([i \in 1 .. Len(t) |-> StatedChar(t[i])], InAlphabet)

AmendedNormalize(t) ==
    SelectSeq([i \in 1 .. Len(t) |-> AmendedChar(t[i])], InAlphabet)

\* C10 as stated: the result is the per-character image under the stated
\* rule (ヵ, ヶ by table, ァ..ヶ shifted, every other character unchanged),
\* with the characters outside the alphabet dropped one by one.
C10_AsStated == Returned1 => hira = StatedNormalize(input)

\* C10 amended: the same, with ヷ ヸ ヹ ヺ mapped by the table to わ ゐ ゑ を;
\* conversion is per character and in order, then each character outside the
\* alphabet is dropped; "アイ" gives "あい" and "Tokyo東京" gives "".
C10_PerCharacterRule ==
    /\ npc \in {"converted", "returned"} =>
          /\ Len(converted) = Len(text)
          /\ \A i \in 1 .. Len(text) : converted[i] = AmendedChar(text[i])
    /\ Returned1 =>
          /\ hira = AmendedNormalize(input)
          /\ (input = KataAI => hira = HiraAI)
          /\ (input = TokyoMixed => hira = <<>>)

\* "ヵA": ヵ -> か by the table, the non-kana character dropped on its own
C10_Witness == Returned1 /\ input = <<12533, 84>> /\ hira = <<12363>>

----------------------------------------------------------------------------
(* Properties of the pipeline (checked under Spec) *)

Extracted == pc \in {"write", "notice", "done"}      \* extract_words returned

\* The extractor contract as C1 states it.
StatedReading(r) ==
    IF Len(r) > 11 /\ strip(r[12]) # <<>> THEN strip(r[12])
    ELSE IF strip(r[1]) # <<>> THEN strip(r[1])
    ELSE <<>>

\* C1: for every record with at least one field, the reading chosen is
\* field 11 trimmed if the record has more than 11 fields and field 11 is
\* non-empty after trimming, otherwise field 0 trimmed if that is non-empty
\* after trimming, otherwise the empty string.
C1_AsStated == Truthy(row) => reading = StatedReading(row)

\* Codepoint comparison of two strings, character by character.
RECURSIVE CodepointLess(_, _)
CodepointLess(a, b) ==
    IF b = <<>> THEN FALSE
    ELSE IF a = <<>> THEN TRUE
    ELSE IF Head(a) # Head(b) THEN Head(a) < Head(b)
    ELSE CodepointLess(Tail(a), Tail(b))

\* C5: the list extract_words returns is strictly increasing under codepoint
\* comparison, and every element is non-empty and made of characters of the
\* allowed alphabet only.
C5_OutputSequenceInvariant ==
    Extracted =>
        /\ \A i \in 1 .. (Len(words) - 1) : CodepointLess(words[i], words[i + 1])
        /\ \A i \in 1 .. Len(words) :
              /\ words[i] # <<>>
              /\ \A k \in 1 .. Len(words[i]) : InAlphabet(words[i][k])

\* two words out of a row stream that also held a reading normalizing to ""
C5_Witness ==
    /\ pc = "write" /\ Len(words) = 2
    /\ \E i \in 1 .. Len(consumed) :
          Truthy(consumed[i]) /\ normalize_hiragana(ReadingOf(consumed[i])) = <<>>

Perms(n) == Permutations(1 .. n)

Permuted(s, p) == [i \in 1 .. Len(s) |-> s[p[i]]]

\* C6: the list extract_words returns is the same for every ordering of the
\* rows it was given (stated where extract_words has just returned).
C6_OrderIndependent ==
    pc = "write" =>
        \A p \in Perms(Len(consumed)) :
            extract_words(Permuted(consumed, p)) = words

\* two different rows, each contributing its own word
C6_Witness ==
    /\ pc = "write" /\ Len(consumed) = 2 /\ consumed[1] # consumed[2]
    /\ words = <<<<12354>>, <<12436>>>>

\* C7: when opening, reading or decoding a file fails, the run stops at that
\* file: no later file is opened, write_wordlist never starts and the artifact
\* is left as it was; write_wordlist starts only after every discovered file
\* has been read to its end without failure.
C7_AbortOnReadError ==
    /\ failedAt # 0 =>
          /\ pc = "failed"
          /\ writes = 0
          /\ artifact = prevArtifact
          /\ \A f \in Files : f > failedAt => opens[f] = 0
    /\ writes > 0 =>
          /\ failedAt = 0
          /\ fi = nFiles
          /\ \A f \in Files : opens[f] = 1 /\ closes[f] = 1

\* a decode error in the first of two files, after a row was consumed
C7_Witness ==
    /\ pc = "failed" /\ failedAt = 1 /\ nFiles = 2 /\ opens = <<1, 0>>
    /\ Len(consumed) = 1 /\ artifact = StaleArtifact

\* C9: every file is opened at most once and closed once per open, at most
\* one input handle is open at a time, every discovered file has been opened
\* and closed exactly once when extract_words returns, and no handle is open
\* once extract_words has returned or failed.
C9_HandleDiscipline ==
    /\ Cardinality(openHandles) <= 1
    /\ \A f \in Files :
          /\ opens[f] <= 1
          /\ closes[f] = opens[f] - (IF f \in openHandles THEN 1 ELSE 0)
    /\ Extracted =>
          /\ openHandles = {}
          /\ \A f \in Files : opens[f] = 1 /\ closes[f] = 1
    /\ pc = "failed" =>
          /\ openHandles = {}
          /\ \A f \in Files : f < failedAt => opens[f] = 1 /\ closes[f] = 1

\* a read error in file 2 after file 1 was closed
C9_Witness ==
    /\ pc = "failed" /\ failedAt = 2 /\ opens = <<1, 1>> /\ closes = <<1, 1>>
    /\ openHandles = {}

----------------------------------------------------------------------------
(* Properties of the serializer (checked under SpecWrite) *)

\* C2: two executions of write_wordlist on the same sequence leave
\* byte-identical artifacts.
C2_AsStated == writes >= 2 => artifact = prevArtifact

\* The payload of a gzip member.
Gunzip(a) == a.data

\* UTF-8 decoding of a byte string.
RECURSIVE Utf8Decode(_)
Utf8Decode(b) ==
    IF b = <<>> THEN <<>>
    ELSE IF b[1] < 128 THEN <<b[1]>> \o Utf8Decode(SubSeq(b, 2, Len(b)))
    ELSE IF b[1] < 224
         THEN <<(b[1] - 192) * 64 + (b[2] - 128)>> \o Utf8Decode(SubSeq(b, 3, Len(b)))
    ELSE IF b[1] < 240
         THEN <<(b[1] - 224) * 4096 + (b[2] - 128) * 64 + (b[3] - 128)>>
              \o Utf8Decode(SubSeq(b, 4, Len(b)))
    ELSE <<(b[1] - 240) * 262144 + (b[2] - 128) * 4096 + (b[3] - 128) * 64
           + (b[4] - 128)>> \o Utf8Decode(SubSeq(b, 5, Len(b)))

LineTerminators == {10, 11, 12, 13, 28, 29, 30, 133, 8232, 8233}

\* Splitting a text on line terminators; an unterminated last line counts.
RECURSIVE SplitFrom(_, _, _)
SplitFrom(t, line, acc) ==
    IF t = <<>> THEN (IF line = <<>> THEN acc ELSE Append(acc, line))
    ELSE IF Head(t) \in LineTerminators THEN SplitFrom(Tail(t), <<>>, Append(acc, line))
    ELSE SplitFrom(Tail(t), Append(line, Head(t)), acc)

SplitLines(t) == SplitFrom(t, <<>>, <<>>)

\* Each word followed by one line feed, nothing else.
RECURSIVE LinesOf(_)
LinesOf(ws) ==
    IF ws = <<>> THEN <<>> ELSE Head(ws) \o <<10>> \o LinesOf(Tail(ws))

\* C8: the artifact is a gzip member whose decompressed, decoded text is each
\* word in order followed by one line feed and nothing else, and splitting
\* that text on line terminators gives back the sequence written.
C8_RoundTrip ==
    writes >= 1 =>
        /\ artifact.id = <<31, 139>> /\ artifact.cm = 8
        /\ Utf8Decode(Gunzip(artifact)) = LinesOf(words)
        /\ SplitLines(Utf8Decode(Gunzip(artifact))) = words

\* four words: 15 bytes of kana and 4 line feeds
C8_Witness == writes = 1 /\ Len(words) = 4 /\ Len(artifact.data) = 19

====
